---- MODULE Spec2Model ----
(***************************************************************************)
(* Model of dnscrypt-proxy/config.go: ConfigLoad and includesName.         *)
(*                                                                         *)
(* ConfigLoad is one sequential function.  Its position is kept in pc:     *)
(*   "start"   before toml.DecodeFile                        (line 65)     *)
(*   "sources" inside  for ... range config.SourcesConfig    (line 90)     *)
(*   "servers" inside  for ... range config.ServerNames      (line 124)    *)
(*   "check"   at the final length test                      (line 142)    *)
(*   "done"    ConfigLoad has returned (err holds the returned error)      *)
(*   "exited"  dlog.Fatal has terminated the process         (line 132)    *)
(* Durations are counted in milliseconds (time.Duration counts             *)
(* nanoseconds; only the unit differs).                                    *)
(***************************************************************************)
EXTENDS Integers, Sequences, FiniteSets, TLC

VARIABLES
    decodeFails,  \* toml.DecodeFile returns an error
    config,       \* the Config value after toml.DecodeFile
    world,        \* per declared source: what NewSource / Parse yield
    proxy,        \* the *Proxy the load writes to
    ServerNames,  \* config.ServerNames as the load sees it (lines 85-89)
    pending,      \* sources the range loop has not visited yet
    visited,      \* sources the range loop has visited, in order
    idx,          \* index of the next element of config.ServerNames
    pc,           \* position in ConfigLoad
    err,          \* the error ConfigLoad returned
    origin,       \* who appended each Registry entry (history)
    sourceCalls,  \* the arguments of each NewSource call (history)
    builderCalls  \* names NewServerStampFromLegacy was called for (history)

vars == << decodeFails, config, world, proxy, ServerNames, pending, visited,
           idx, pc, err, origin, sourceCalls, builderCalls >>

----------------------------------------------------------------------------
(* Bounds *)

MaxNames == 2   \* longest server_names list the operator writes
MaxCand  == 2   \* longest candidate list one source produces

(* Small universes the inputs are drawn from *)

WantedPool  == {"a", "A", "b"}     \* names an operator may list
ServerKeys  == {"a", "b"}          \* keys of the [servers] table
SourceKeys  == {"s1", "s2"}        \* keys of the [sources] table

----------------------------------------------------------------------------
(* Units of time.Duration, in milliseconds *)

Millisecond == 1
Minute      == 60000
Hour        == 3600000

----------------------------------------------------------------------------
(* Sequences *)

SeqsUpTo(S, n) == UNION { [1..k -> S] : k \in 0..n }

Perms(S) == { f \in [1..Cardinality(S) -> S] :
                \A i, j \in 1..Cardinality(S) : f[i] = f[j] => i = j }

Range(s) == { s[i] : i \in 1..Len(s) }

Count(s, x) == Cardinality({ i \in 1..Len(s) : s[i] = x })

SameBag(s, t) ==
    /\ Len(s) = Len(t)
    /\ \A x \in Range(s) \cup Range(t) : Count(s, x) = Count(t, x)

----------------------------------------------------------------------------
(* Errors.  The value nil is NoError. *)

NoError == [kind |-> "nil", field |-> "", name |-> ""]

DecodeError == [kind |-> "decode", field |-> "", name |-> ""]

NoListenError == [kind |-> "No local IP/port configured", field |-> "", name |-> ""]

MissingError(field, sourceName) ==
    [kind |-> "Missing", field |-> field, name |-> sourceName]

NoServersError == [kind |-> "No servers configured", field |-> "", name |-> ""]

StampError(reason) == [kind |-> "stamp", field |-> reason, name |-> ""]

----------------------------------------------------------------------------
(* Config, newConfig *)

newConfig ==
    [ ServerNames      |-> << >>,
      ListenAddresses  |-> << "127.0.0.1:53" >>,
      Daemonize        |-> FALSE,
      ForceTCP         |-> FALSE,
      Timeout          |-> 2500,
      CertRefreshDelay |-> 30,
      BlockIPv6        |-> FALSE,
      Cache            |-> TRUE,
      CacheSize        |-> 256,
      CacheNegTTL      |-> 60,
      CacheMinTTL      |-> 60,
      CacheMaxTTL      |-> 8600,
      ServersConfig    |-> << >>,
      SourcesConfig    |-> << >> ]

(* The Proxy before ConfigLoad: Go zero values *)
ZeroProxy ==
    [ timeout           |-> 0,
      mainProto         |-> "",
      certRefreshDelay  |-> 0,
      listenAddresses   |-> << >>,
      daemonize         |-> FALSE,
      pluginBlockIPv6   |-> FALSE,
      cache             |-> FALSE,
      cacheSize         |-> 0,
      cacheNegTTL       |-> 0,
      cacheMinTTL       |-> 0,
      cacheMaxTTL       |-> 0,
      registeredServers |-> << >> ]

(* ServerConfig values of the [servers] table *)
GoodServer  == [Stamp |-> "", ProviderName |-> "p.example",
                Address |-> "1.2.3.4:443", PublicKey |-> "ABCD"]
OtherServer == [Stamp |-> "", ProviderName |-> "q.example",
                Address |-> "5.6.7.8:443", PublicKey |-> "EF01"]
BadServer   == [Stamp |-> "", ProviderName |-> "p.example",
                Address |-> "nowhere", PublicKey |-> "ABCD"]
StampServer == [Stamp |-> "sdns://x", ProviderName |-> "p.example",
                Address |-> "1.2.3.4:443", PublicKey |-> "ABCD"]
StampBadServer == [Stamp |-> "sdns://x", ProviderName |-> "",
                   Address |-> "1.2.3.4:443", PublicKey |-> "ABCD"]

(* the definitions an operator may give the server named k *)
ServerConfigsOf(k) ==
    IF k = "a" THEN {GoodServer, BadServer, StampServer}
    ELSE {OtherServer, BadServer, StampBadServer}

(* SourceConfig values of the [sources] table *)
FullSource == [URL |-> "https://x/list.csv", MinisignKeyStr |-> "RWQ",
               CacheFile |-> "list.csv", FormatStr |-> "v1", RefreshDelay |-> 0]

(* the declarations an operator may give the source named k *)
SourceConfigsOf(k) ==
    IF k = "s1"
    THEN { FullSource,
           [FullSource EXCEPT !.URL = ""],
           [FullSource EXCEPT !.MinisignKeyStr = "", !.FormatStr = ""] }
    ELSE { [FullSource EXCEPT !.RefreshDelay = 12],
           [FullSource EXCEPT !.CacheFile = "", !.RefreshDelay = -1],
           [FullSource EXCEPT !.FormatStr = ""] }

----------------------------------------------------------------------------
(* Collaborators *)

(* the names the list of source k may hold *)
CandPoolOf(k) == IF k = "s1" THEN {"A", "b"} ELSE {"A"}

(* What NewSource followed by source.Parse() yields for source k *)
SourceResultsOf(k) ==
    { [kind |-> "NewSourceError", servers |-> << >>],
      [kind |-> "ParseError", servers |-> << >>] }
    \cup
    { [kind |-> "ok", servers |-> c] :
        c \in SeqsUpTo([name : CandPoolOf(k),
                        stamp : {[addr |-> "9.9.9.9:443", pk |-> "FEED",
                                  providerName |-> k]}],
                       MaxCand) }

ValidAddresses == {"1.2.3.4:443", "5.6.7.8:443"}
ValidKeys      == {"ABCD", "EF01"}

(* NewServerStampFromLegacy(address, publicKey, providerName) *)
NewServerStampFromLegacy(address, publicKey, providerName) ==
    IF address \notin ValidAddresses
    THEN [stamp |-> [addr |-> "", pk |-> "", providerName |-> ""],
          err |-> StampError("address")]
    ELSE IF publicKey \notin ValidKeys
    THEN [stamp |-> [addr |-> "", pk |-> "", providerName |-> ""],
          err |-> StampError("public key")]
    ELSE IF providerName = ""
    THEN [stamp |-> [addr |-> "", pk |-> "", providerName |-> ""],
          err |-> StampError("provider name")]
    ELSE [stamp |-> [addr |-> address, pk |-> publicKey,
                     providerName |-> providerName],
          err |-> NoError]

----------------------------------------------------------------------------
(* includesName *)

(* Unicode case folding, on the letters of the names used here *)
Fold(name) ==
    CASE name = "A" -> "a"
      [] name = "B" -> "b"
      [] OTHER      -> name

EqualFold(s, t) == Fold(s) = Fold(t)

(* includesName comparing with == instead of strings.EqualFold *)
includesNameExact(names, name) ==
    \E i \in 1..Len(names) : names[i] = name

(* includesName that finds every name *)
includesNameAny(names, name) == TRUE

RECURSIVE includesName(_, _)
includesName(names, name) ==
    IF names = << >> THEN FALSE
    ELSE IF EqualFold(Head(names), name) THEN TRUE
    ELSE includesName(Tail(names), name)

----------------------------------------------------------------------------
(* The state ConfigLoad works on, as one record, and its steps *)

Halted(st) == st.pc \in {"done", "exited"}

(* the validation without the test of line 94 *)
MissingFieldNoKey(source) ==
    IF source.URL = "" THEN "URL"
    ELSE IF source.CacheFile = "" THEN "cache file"
    ELSE IF source.FormatStr = "" THEN "format"
    ELSE ""

(* lines 91-102: the first required field that is empty, "" when none *)
MissingField(source) ==
    IF source.URL = "" THEN "URL"
    ELSE IF source.MinisignKeyStr = "" THEN "Minisign key"
    ELSE IF source.CacheFile = "" THEN "cache file"
    ELSE IF source.FormatStr = "" THEN "format"
    ELSE ""

(* lines 103-105 *)
EffectiveRefreshDelay(source) ==
    IF source.RefreshDelay <= 0 THEN 24 ELSE source.RefreshDelay

(* line 106: the arguments NewSource is called with *)
NewSourceArgs(source) ==
    [url |-> source.URL, minisignKeyStr |-> source.MinisignKeyStr,
     cacheFile |-> source.CacheFile, formatStr |-> source.FormatStr,
     refreshDelay |-> EffectiveRefreshDelay(source) * Hour]

(* lines 116-122: the inner loop over the candidates of one source *)
RECURSIVE AppendWanted(_, _, _)
AppendWanted(registered, names, registeredServers) ==
    IF registeredServers = << >> THEN registered
    ELSE IF ~includesName(names, Head(registeredServers).name)
    THEN AppendWanted(registered, names, Tail(registeredServers))
    ELSE AppendWanted(Append(registered, Head(registeredServers)), names,
                      Tail(registeredServers))

(* the iteration with "return err" in place of the "continue" of line 109 *)
SourceIterationAbort(st, names, sourceName, source, result) ==
    IF MissingField(source) # ""
    THEN [st EXCEPT !.pc = "done",
                    !.err = MissingError(MissingField(source), sourceName)]
    ELSE IF result.kind = "NewSourceError"
    THEN [st EXCEPT !.pc = "done",
                    !.err = [kind |-> "NewSource", field |-> "", name |-> sourceName],
                    !.sourceCalls = Append(@, NewSourceArgs(source))]
    ELSE IF result.kind = "ParseError"
    THEN [st EXCEPT !.sourceCalls = Append(@, NewSourceArgs(source))]
    ELSE LET reg == AppendWanted(st.registeredServers, names, result.servers)
         IN [st EXCEPT
               !.sourceCalls = Append(@, NewSourceArgs(source)),
               !.registeredServers = reg,
               !.origin = @ \o [i \in 1..(Len(reg) - Len(st.registeredServers))
                                  |-> sourceName]]

(* lines 90-123: one iteration of the loop over config.SourcesConfig *)
SourceIteration(st, names, sourceName, source, result) ==
    IF MissingField(source) # ""
    THEN [st EXCEPT !.pc = "done",
                    !.err = MissingError(MissingField(source), sourceName)]
    ELSE IF result.kind = "NewSourceError"
    THEN [st EXCEPT !.sourceCalls = Append(@, NewSourceArgs(source))]
    ELSE IF result.kind = "ParseError"
    THEN [st EXCEPT !.sourceCalls = Append(@, NewSourceArgs(source))]
    ELSE LET reg == AppendWanted(st.registeredServers, names, result.servers)
         IN [st EXCEPT
               !.sourceCalls = Append(@, NewSourceArgs(source)),
               !.registeredServers = reg,
               !.origin = @ \o [i \in 1..(Len(reg) - Len(st.registeredServers))
                                  |-> sourceName]]

(* the iteration without the stamp-string test of lines 131-132 *)
ServerIterationIgnoreStamp(st, servers, serverName) ==
    IF serverName \notin DOMAIN servers THEN st
    ELSE LET serverConfig == servers[serverName]
             built == NewServerStampFromLegacy(serverConfig.Address,
                                               serverConfig.PublicKey,
                                               serverConfig.ProviderName)
         IN IF built.err # NoError
            THEN [st EXCEPT !.pc = "done", !.err = built.err,
                            !.builderCalls = Append(@, serverName)]
            ELSE [st EXCEPT
                    !.registeredServers =
                        Append(@, [name |-> serverName, stamp |-> built.stamp]),
                    !.origin = Append(@, "servers"),
                    !.builderCalls = Append(@, serverName)]

(* the iteration with "continue" in place of the "return err" of line 136 *)
ServerIterationSkipBad(st, servers, serverName) ==
    IF serverName \notin DOMAIN servers THEN st
    ELSE LET serverConfig == servers[serverName]
             built == NewServerStampFromLegacy(serverConfig.Address,
                                               serverConfig.PublicKey,
                                               serverConfig.ProviderName)
         IN IF Len(serverConfig.Stamp) > 0
            THEN [st EXCEPT !.pc = "exited"]
            ELSE IF built.err # NoError
            THEN [st EXCEPT !.builderCalls = Append(@, serverName)]
            ELSE [st EXCEPT
                    !.registeredServers =
                        Append(@, [name |-> serverName, stamp |-> built.stamp]),
                    !.origin = Append(@, "servers"),
                    !.builderCalls = Append(@, serverName)]

(* lines 124-141: one iteration of the loop over config.ServerNames *)
ServerIteration(st, servers, serverName) ==
    IF serverName \notin DOMAIN servers THEN st
    ELSE LET serverConfig == servers[serverName]
             built == NewServerStampFromLegacy(serverConfig.Address,
                                               serverConfig.PublicKey,
                                               serverConfig.ProviderName)
         IN IF Len(serverConfig.Stamp) > 0
            THEN [st EXCEPT !.pc = "exited"]
            ELSE IF built.err # NoError
            THEN [st EXCEPT !.pc = "done", !.err = built.err,
                            !.builderCalls = Append(@, serverName)]
            ELSE [st EXCEPT
                    !.registeredServers =
                        Append(@, [name |-> serverName, stamp |-> built.stamp]),
                    !.origin = Append(@, "servers"),
                    !.builderCalls = Append(@, serverName)]

(* the end of ConfigLoad without the test of lines 142-144 *)
FinalCheckAlwaysNil(st) == [st EXCEPT !.pc = "done", !.err = NoError]

(* lines 142-145 *)
FinalCheck(st) ==
    IF Len(st.registeredServers) = 0
    THEN [st EXCEPT !.pc = "done", !.err = NoServersError]
    ELSE [st EXCEPT !.pc = "done", !.err = NoError]

(* lines 68-84: what the load writes to the proxy before the name defaulting *)
ApplySettings(p, c) ==
    LET early == [p EXCEPT
                    !.timeout = c.Timeout * Millisecond,
                    !.mainProto = IF c.ForceTCP THEN "tcp" ELSE "udp",
                    !.certRefreshDelay = c.CertRefreshDelay * Minute]
    IN IF Len(c.ListenAddresses) = 0 THEN early
       ELSE [early EXCEPT
               !.listenAddresses = c.ListenAddresses,
               !.daemonize = c.Daemonize,
               !.pluginBlockIPv6 = c.BlockIPv6,
               !.cache = c.Cache,
               !.cacheSize = c.CacheSize,
               !.cacheNegTTL = c.CacheNegTTL,
               !.cacheMinTTL = c.CacheMinTTL,
               !.cacheMaxTTL = c.CacheMaxTTL]

(* ConfigLoad without the defaulting of lines 85-89 *)
DefaultedServerNamesNone(c) == {c.ServerNames}

(* lines 85-89: the orders in which the defaulted names can come out *)
DefaultedServerNames(c) ==
    IF Len(c.ServerNames) = 0 THEN Perms(DOMAIN c.ServersConfig)
    ELSE {c.ServerNames}

----------------------------------------------------------------------------
(* ConfigLoad from line 90 on, as a function of the order in which range   *)
(* visits config.SourcesConfig                                            *)

RECURSIVE RunSources(_, _, _, _, _)
RunSources(st, names, sources, results, order) ==
    IF order = << >> \/ Halted(st) THEN st
    ELSE RunSources(SourceIteration(st, names, Head(order),
                                    sources[Head(order)], results[Head(order)]),
                    names, sources, results, Tail(order))

RECURSIVE RunServers(_, _, _)
RunServers(st, servers, names) ==
    IF names = << >> \/ Halted(st) THEN st
    ELSE RunServers(ServerIteration(st, servers, Head(names)), servers,
                    Tail(names))

Load(names, c, results, order) ==
    LET s0 == [pc |-> "sources", err |-> NoError, registeredServers |-> << >>,
               origin |-> << >>, sourceCalls |-> << >>,
               builderCalls |-> << >>]
        s1 == RunSources(s0, names, c.SourcesConfig, results, order)
        s2 == RunServers(s1, c.ServersConfig, names)
    IN IF Halted(s2) THEN s2 ELSE FinalCheck(s2)

(* what the caller of ConfigLoad observes *)
Outcome(st) ==
    [pc |-> st.pc, err |-> st.err, registeredServers |-> st.registeredServers]

----------------------------------------------------------------------------
(* The load state as a record, and the variables it is kept in *)

LoadState ==
    [ pc |-> pc, err |-> err, registeredServers |-> proxy.registeredServers,
      origin |-> origin, sourceCalls |-> sourceCalls,
      builderCalls |-> builderCalls ]

Store(st) ==
    /\ pc' = st.pc
    /\ err' = st.err
    /\ proxy' = [proxy EXCEPT !.registeredServers = st.registeredServers]
    /\ origin' = st.origin
    /\ sourceCalls' = st.sourceCalls
    /\ builderCalls' = st.builderCalls

----------------------------------------------------------------------------
(* Initial states: a decoded configuration and the collaborators' answers *)

(* configurations that differ in the resolver tables *)
ResolverConfigs ==
    { [newConfig EXCEPT !.ServerNames = n, !.ServersConfig = sv,
                        !.SourcesConfig = so] :
        n \in SeqsUpTo(WantedPool, MaxNames),
        sv \in UNION { { t \in [K -> UNION {ServerConfigsOf(k) : k \in K}] :
                            \A k \in K : t[k] \in ServerConfigsOf(k) } :
                        K \in SUBSET ServerKeys },
        so \in UNION { { t \in [K -> UNION {SourceConfigsOf(k) : k \in K}] :
                            \A k \in K : t[k] \in SourceConfigsOf(k) } :
                        K \in SUBSET SourceKeys } }

(* configurations that differ in the plain settings *)
SettingConfigs ==
    { [newConfig EXCEPT !.ListenAddresses = l, !.ForceTCP = f, !.Daemonize = d,
                        !.Timeout = t, !.ServersConfig = sv] :
        l \in {<< >>, << "127.0.0.1:53" >>, << "[::1]:53", "10.0.0.1:5353" >>},
        f \in BOOLEAN, d \in BOOLEAN, t \in {2500, 100},
        sv \in {<< >>, [k \in {"a"} |-> GoodServer]} }

Configs == ResolverConfigs \cup SettingConfigs

(* the collaborators' answers for the declared sources; a source that fails
   the validation of lines 91-102 never gets to NewSource, its answer is
   fixed *)
AnswersOf(sources, k) ==
    IF MissingField(sources[k]) # ""
    THEN {[kind |-> "NewSourceError", servers |-> << >>]}
    ELSE SourceResultsOf(k)

RECURSIVE Worlds(_, _)
Worlds(sources, D) ==
    IF D = {} THEN {<< >>}
    ELSE LET k == CHOOSE x \in D : TRUE
         IN { (k :> r) @@ w : r \in AnswersOf(sources, k),
                              w \in Worlds(sources, D \ {k}) }

Init ==
    /\ decodeFails \in BOOLEAN
    /\ config \in Configs
    /\ decodeFails => config = newConfig
    /\ world \in Worlds(config.SourcesConfig, DOMAIN config.SourcesConfig)
    /\ proxy = ZeroProxy
    /\ ServerNames = config.ServerNames
    /\ pending = {}
    /\ visited = << >>
    /\ idx = 1
    /\ pc = "start"
    /\ err = NoError
    /\ origin = << >>
    /\ sourceCalls = << >>
    /\ builderCalls = << >>

----------------------------------------------------------------------------
(* ConfigLoad, step by step *)

(* line 65-67 *)
DecodeFailure ==
    /\ pc = "start"
    /\ decodeFails
    /\ pc' = "done"
    /\ err' = DecodeError
    /\ UNCHANGED << decodeFails, config, world, proxy, ServerNames, pending,
                    visited, idx, origin, sourceCalls, builderCalls >>

(* lines 68-76, with an empty ListenAddresses *)
NoListenAddress ==
    /\ pc = "start"
    /\ ~decodeFails
    /\ Len(config.ListenAddresses) = 0
    /\ proxy' = ApplySettings(proxy, config)
    /\ pc' = "done"
    /\ err' = NoListenError
    /\ UNCHANGED << decodeFails, config, world, ServerNames, pending, visited,
                    idx, origin, sourceCalls, builderCalls >>

(* lines 68-89 *)
Settings ==
    /\ pc = "start"
    /\ ~decodeFails
    /\ Len(config.ListenAddresses) # 0
    /\ proxy' = ApplySettings(proxy, config)
    /\ ServerNames' \in DefaultedServerNames(config)
    /\ pending' = DOMAIN config.SourcesConfig
    /\ pc' = "sources"
    /\ UNCHANGED << decodeFails, config, world, visited, idx, err, origin,
                    sourceCalls, builderCalls >>

(* lines 90-123, one iteration; range picks any source not yet visited *)
NextSource ==
    /\ pc = "sources"
    /\ \E sourceName \in pending :
          /\ Store(SourceIteration(LoadState, ServerNames, sourceName,
                                   config.SourcesConfig[sourceName],
                                   world[sourceName]))
          /\ pending' = pending \ {sourceName}
          /\ visited' = Append(visited, sourceName)
    /\ UNCHANGED << decodeFails, config, world, ServerNames, idx >>

(* line 90, the range is exhausted *)
SourcesDone ==
    /\ pc = "sources"
    /\ pending = {}
    /\ pc' = "servers"
    /\ UNCHANGED << decodeFails, config, world, proxy, ServerNames, pending,
                    visited, idx, err, origin, sourceCalls, builderCalls >>

(* lines 124-141, one iteration *)
NextServer ==
    /\ pc = "servers"
    /\ idx <= Len(ServerNames)
    /\ Store(ServerIteration(LoadState, config.ServersConfig, ServerNames[idx]))
    /\ idx' = idx + 1
    /\ UNCHANGED << decodeFails, config, world, ServerNames, pending, visited >>

(* line 124, the range is exhausted *)
ServersDone ==
    /\ pc = "servers"
    /\ idx > Len(ServerNames)
    /\ pc' = "check"
    /\ UNCHANGED << decodeFails, config, world, proxy, ServerNames, pending,
                    visited, idx, err, origin, sourceCalls, builderCalls >>

(* lines 142-145 *)
Finish ==
    /\ pc = "check"
    /\ Store(FinalCheck(LoadState))
    /\ UNCHANGED << decodeFails, config, world, ServerNames, pending, visited,
                    idx >>

Next ==
    \/ DecodeFailure
    \/ NoListenAddress
    \/ Settings
    \/ NextSource
    \/ SourcesDone
    \/ NextServer
    \/ ServersDone
    \/ Finish

Spec == Init /\ [][Next]_vars

----------------------------------------------------------------------------
(* Vocabulary of the properties *)

Registry == proxy.registeredServers

Sources == config.SourcesConfig

Servers == config.ServersConfig

(* the load got past decoding and the listen-address test *)
Started == ~decodeFails /\ Len(config.ListenAddresses) # 0

Returned == pc = "done"

Succeeded == pc = "done" /\ err = NoError

RequiredFields == << "URL", "Minisign key", "cache file", "format" >>

FieldValue(source, i) ==
    CASE i = 1 -> source.URL
      [] i = 2 -> source.MinisignKeyStr
      [] i = 3 -> source.CacheFile
      [] i = 4 -> source.FormatStr

Incomplete(source) == \E i \in 1..4 : FieldValue(source, i) = ""

SourceFails(s) == world[s].kind \in {"NewSourceError", "ParseError"}

Matches(names, name) == \E i \in 1..Len(names) : Fold(names[i]) = Fold(name)

(* the candidates of source s that the operator asked for *)
WantedOf(s) ==
    LET Asked(c) == Matches(ServerNames, c.name)
    IN IF Incomplete(Sources[s]) \/ SourceFails(s) THEN << >>
       ELSE SelectSeq(world[s].servers, Asked)

RECURSIVE Blocks(_)
Blocks(order) ==
    IF order = << >> THEN << >> ELSE WantedOf(Head(order)) \o Blocks(Tail(order))

----------------------------------------------------------------------------
(* C1: ConfigLoad succeeds only with a Registry of length >= 1; a load whose
   two passes end with an empty Registry returns "No servers configured", in
   particular when every declared source fails to construct or parse and no
   wanted name has an explicit definition. *)
C1_NonEmptyRegistry ==
    /\ Succeeded => Len(Registry) >= 1
    /\ (Returned /\ Len(Registry) = 0 /\ pending = {} /\ idx > Len(ServerNames)
          /\ err.kind \notin {"stamp", "Missing"} /\ Started)
         => err = NoServersError
    /\ (Returned /\ Started
          /\ (\A s \in DOMAIN Sources : ~Incomplete(Sources[s]) /\ SourceFails(s))
          /\ (\A i \in 1..Len(ServerNames) : ServerNames[i] \notin DOMAIN Servers))
         => err = NoServersError

C1_Witness ==
    /\ Returned /\ err = NoServersError
    /\ Cardinality(DOMAIN Sources) = 2
    /\ \A s \in DOMAIN Sources : ~Incomplete(Sources[s]) /\ SourceFails(s)
    /\ Len(ServerNames) > 0

(* C2: with a decoded configuration and a listen address, a source that lacks
   a required field makes the load return "Missing <field> for source
   [name]", naming a source and the first field (URL, key, cache file,
   format) that source lacks; the load never succeeds and never gets to the
   explicit servers. *)
C2_MissingFieldFails ==
    ((pc \in {"done", "exited", "servers", "check"}) /\ Started
        /\ \E s \in DOMAIN Sources : Incomplete(Sources[s]))
      => /\ pc = "done"
         /\ err.kind = "Missing"
         /\ err.name \in DOMAIN Sources
         /\ \E i \in 1..4 :
               /\ err.field = RequiredFields[i]
               /\ FieldValue(Sources[err.name], i) = ""
               /\ \A j \in 1..(i - 1) : FieldValue(Sources[err.name], j) # ""

C2_Witness ==
    /\ Returned /\ err.kind = "Missing" /\ err.field = "Minisign key"
    /\ Len(visited) = 2
    /\ Len(Registry) = 2

(* C3: a NewSource or Parse failure never ends the load: the iteration leaves
   the Registry and the error alone and the loop goes on, and what the load
   finally yields is what it yields when each failing source parses to an
   empty list of servers. *)
Healed ==
    [s \in DOMAIN world |->
        IF SourceFails(s) THEN [kind |-> "ok", servers |-> << >>] ELSE world[s]]

C3_FailureIsSkipped ==
    /\ []((pc \in {"done", "exited"} /\ Started)
            => Outcome(LoadState)
                 = Outcome(Load(ServerNames, config, Healed, visited)))
    /\ [][(pc = "sources" /\ visited' # visited
             /\ ~Incomplete(Sources[visited'[Len(visited')]])
             /\ SourceFails(visited'[Len(visited')]))
            => /\ pc' = "sources"
               /\ err' = NoError
               /\ proxy' = proxy
               /\ Len(sourceCalls') = Len(sourceCalls) + 1
               /\ pending' = pending \ {visited'[Len(visited')]}]_vars

C3_Witness ==
    /\ Succeeded
    /\ Len(visited) = 2
    /\ ~Incomplete(Sources[visited[1]]) /\ SourceFails(visited[1])
    /\ ~SourceFails(visited[2])
    /\ Len(Registry) = 3
    /\ Len(builderCalls) = 1

(* C4: the Registry is, at every moment, the wanted candidates of the visited
   sources, source after source in the order each source gave them, every
   occurrence once, followed by the entries of the explicit servers; a
   candidate is wanted when its name equals a wanted name up to case. *)
C4_SourceFilter ==
    (pc # "start") =>
        LET blocks == Blocks(visited) IN
        /\ Len(Registry) >= Len(blocks)
        /\ SubSeq(Registry, 1, Len(blocks)) = blocks
        /\ Len(origin) = Len(Registry)
        /\ \A i \in 1..Len(Registry) : (origin[i] = "servers") <=> (i > Len(blocks))
        /\ \A i \in 1..Len(blocks) : Matches(ServerNames, Registry[i].name)

C4_Witness ==
    /\ pc = "servers"
    /\ Len(visited) = 2
    /\ \E s \in DOMAIN Sources :
          /\ Len(world[s].servers) = 2
          /\ world[s].servers[1].name = "b"
          /\ world[s].servers[2].name = "A"
          /\ Len(WantedOf(s)) = 1
    /\ Len(Registry) = 3
    /\ "A" \notin Range(ServerNames)

(* C5 as stated: with server_names unspecified, no candidate of any source
   enters the Registry; every entry comes from an explicit server. *)
C5_NoSourceEntryWhenUnspecified ==
    (Len(config.ServerNames) = 0)
        => \A i \in 1..Len(origin) : origin[i] = "servers"

(* C5 amended: with server_names unspecified, a candidate of a source enters
   the Registry only when its name equals, up to case, a key of the explicit
   server table; every other entry comes from an explicit server. *)
C5_OnlyExplicitKeysWhenUnspecified ==
    (Len(config.ServerNames) = 0)
        => \A i \in 1..Len(origin) :
              \/ origin[i] = "servers"
              \/ \E k \in DOMAIN Servers : Fold(k) = Fold(Registry[i].name)

C5_Witness ==
    /\ Succeeded
    /\ Len(config.ServerNames) = 0
    /\ DOMAIN Servers = {"a"}
    /\ Len(Registry) = 2
    /\ origin = << "s1", "servers" >>
    /\ \E s \in DOMAIN Sources :
          ~SourceFails(s) /\ Len(world[s].servers) = 2 /\ Len(WantedOf(s)) = 1

(* C6: with server_names unspecified the wanted names are, once the load is
   past the listen-address test, exactly the keys of the explicit server
   table, each once; with no sources, no stamp strings
   and definitions the builder accepts, the Registry holds one entry per key
   and nothing else, pairing the key with the stamp built from that server's
   own address, public key and provider name. *)
StampOf(serverConfig) ==
    NewServerStampFromLegacy(serverConfig.Address, serverConfig.PublicKey,
                             serverConfig.ProviderName)

C6_DefaultedNames ==
    /\ (Len(config.ServerNames) = 0 /\ pc # "start" /\ Started)
         => /\ Range(ServerNames) = DOMAIN Servers
            /\ Len(ServerNames) = Cardinality(DOMAIN Servers)
    /\ (Len(config.ServerNames) = 0 /\ Returned /\ Started
          /\ DOMAIN Sources = {}
          /\ \A k \in DOMAIN Servers :
                Servers[k].Stamp = "" /\ StampOf(Servers[k]).err = NoError)
         => /\ Len(Registry) = Cardinality(DOMAIN Servers)
            /\ \A k \in DOMAIN Servers :
                  \E i \in 1..Len(Registry) :
                     Registry[i] =
                        [name |-> k, stamp |-> StampOf(Servers[k]).stamp]
            /\ (DOMAIN Servers # {} <=> err = NoError)

C6_Witness ==
    /\ Succeeded
    /\ Len(config.ServerNames) = 0
    /\ DOMAIN Sources = {}
    /\ DOMAIN Servers = {"a", "b"}
    /\ Len(Registry) = 2
    /\ Registry[1].name = "b"
    /\ Registry[1].stamp.addr = "5.6.7.8:443"

(* C7 as stated: an explicit server with a stamp string makes the load fail,
   the builder is not called for it and no entry is appended for it. *)
C7_AnyStampStringIsFatal ==
    \A k \in DOMAIN Servers :
        (Servers[k].Stamp # "" /\ Started)
            => /\ ~Succeeded
               /\ k \notin Range(builderCalls)
               /\ \A i \in 1..Len(origin) :
                     origin[i] = "servers" => Registry[i].name # k

(* C7 amended: an explicit server with a stamp string whose key is one of the
   wanted names makes the load fail whatever its other fields are: the load
   never reaches the final test nor succeeds, the builder is not called for
   that server and the explicit pass appends no entry for it. *)
C7_WantedStampStringIsFatal ==
    \A k \in DOMAIN Servers :
        (Servers[k].Stamp # "" /\ k \in Range(ServerNames) /\ pc # "start")
            => /\ ~Succeeded
               /\ pc # "check"
               /\ k \notin Range(builderCalls)
               /\ \A i \in 1..Len(origin) :
                     origin[i] = "servers" => Registry[i].name # k

C7_Witness ==
    /\ pc = "exited"
    /\ idx = 3
    /\ Servers[ServerNames[2]] = StampBadServer
    /\ Len(builderCalls) = 1
    /\ Len(Registry) = 2
    /\ Registry[1].name = ServerNames[2]

(* C8: when the builder rejects the legacy fields of a wanted name that has an
   explicit definition, and nothing fatal came before (no incomplete source,
   no stamp string or rejection at an earlier wanted name), ConfigLoad
   returns that validation error; wanted names after it are not processed. *)
Rejected(name) ==
    /\ name \in DOMAIN Servers
    /\ Servers[name].Stamp = ""
    /\ StampOf(Servers[name]).err # NoError

Accepted(name) ==
    name \in DOMAIN Servers
        => Servers[name].Stamp = "" /\ StampOf(Servers[name]).err = NoError

FirstRejected(i) ==
    /\ i \in 1..Len(ServerNames)
    /\ Rejected(ServerNames[i])
    /\ \A j \in 1..(i - 1) : Accepted(ServerNames[j])

C8_BadDefinitionIsFatal ==
    \A i \in 1..Len(ServerNames) :
        (FirstRejected(i) /\ Started /\ pc \in {"done", "exited", "check"}
           /\ \A s \in DOMAIN Sources : ~Incomplete(Sources[s]))
          => LET Explicit(n) == n \in DOMAIN Servers IN
             /\ pc = "done"
             /\ err = StampOf(Servers[ServerNames[i]]).err
             /\ idx = i + 1
             /\ builderCalls = SelectSeq(SubSeq(ServerNames, 1, i), Explicit)
             /\ Cardinality({n \in 1..Len(origin) : origin[n] = "servers"})
                  = Len(builderCalls) - 1

C8_Witness ==
    /\ Returned
    /\ err = StampError("address")
    /\ idx = 2
    /\ Len(ServerNames) = 2
    /\ ServerNames[2] \in DOMAIN Servers /\ Accepted(ServerNames[2])
    /\ Len(Registry) = 2
    /\ builderCalls = << ServerNames[1] >>

(* C9: a load that ends with an error leaves the proxy as it was before the
   call: no server appended, no setting changed. *)
C9_NoPartialStartup ==
    (pc \in {"done", "exited"} /\ ~Succeeded) => proxy = ZeroProxy

(* C10 as stated: with an explicit server_names list, every order in which the
   sources are visited gives the same success or failure, the same error and
   the same Registry sequence. *)
C10_OrderIrrelevant ==
    (pc \in {"done", "exited"} /\ Started /\ Len(config.ServerNames) > 0)
        => \A o \in Perms(DOMAIN Sources) :
              Outcome(Load(ServerNames, config, world, o)) = Outcome(LoadState)

(* C10 amended: with an explicit server_names list, every order in which the
   sources are visited gives the same success or failure; the same error,
   except that a missing-field error may name another incomplete source; and
   on success the same Registry entries with the same multiplicities, the
   explicit servers' entries last and in the same order. *)
C10_OrderUpToPermutation ==
    (pc \in {"done", "exited"} /\ Started /\ Len(config.ServerNames) > 0)
        => \A o \in Perms(DOMAIN Sources) :
              LET r == Load(ServerNames, config, world, o)
                  k == Cardinality({i \in 1..Len(origin) : origin[i] = "servers"})
              IN /\ r.pc = pc
                 /\ (r.err = NoError) <=> (err = NoError)
                 /\ IF err.kind = "Missing"
                    THEN /\ r.err.kind = "Missing"
                         /\ Incomplete(Sources[r.err.name])
                    ELSE r.err = err
                 /\ Succeeded =>
                       /\ SameBag(r.registeredServers, Registry)
                       /\ SubSeq(r.registeredServers, Len(Registry) - k + 1,
                                 Len(Registry))
                            = SubSeq(Registry, Len(Registry) - k + 1,
                                     Len(Registry))

C10_Witness ==
    /\ Succeeded
    /\ Len(config.ServerNames) > 0
    /\ Len(visited) = 2
    /\ Len(WantedOf(visited[1])) = 1
    /\ Len(WantedOf(visited[2])) = 1
    /\ Registry[1] # Registry[2]
    /\ Len(Registry) = 3

====
